---------------------------- MODULE Spec2Model ----------------------------
(***************************************************************************)
(* A model of consumers/consumer_hansen.py: the store initializer          *)
(* (init_db), the message reader (read_message), the message processor     *)
(* (process_message), the aggregator/visualizer (update_visualization)     *)
(* and the script's entry point.                                           *)
(*                                                                         *)
(* JSON values are tagged records.  The input file is a sequence of lines, *)
(* each line a sequence of tokens; json.load parses the tokens of the      *)
(* whole file, json.loads those of one line.  An object or a scalar is one *)
(* token (it is written on one line); brackets and commas are tokens of    *)
(* their own, so an array can be laid out on one line or on several.       *)
(***************************************************************************)
EXTENDS Integers, Sequences, FiniteSets, TLC

VARIABLES
    file,      \* DATA_FILE on disk: [st, lines]
    db,        \* DB_PATH on disk: [exists, rows, seq]
    pc,        \* position of the running script
    call,      \* the last call of an operation and how it ended
    message,   \* the entry point's variable `message`
    viz,       \* update_visualization's locals and what it drew
    log        \* the contexts of the script's logger.error calls so far

vars == <<file, db, pc, call, message, viz, log>>

---------------------------------------------------------------------------
(* Bounds *)

MaxLines == 3      \* lines of the input file
MaxRows == 2       \* rows the store is filled up to
MaxRefresh == 2    \* refreshes counted (the counter saturates there)

---------------------------------------------------------------------------
(* JSON values as Python holds them after json.load *)

Null == [t |-> "null"]
Num(n) == [t |-> "num", n |-> n]
Str(s) == [t |-> "str", s |-> s]
Arr(a) == [t |-> "arr", a |-> a]
Obj(o) == [t |-> "obj", o |-> o]

EmptyObj == Obj([k \in {} |-> Null])

\* Python's truth value of a value (the test `if message:`).
Truthy(v) ==
    CASE v.t = "null" -> FALSE
      [] v.t = "num" -> v.n # 0
      [] v.t = "str" -> v.s # ""
      [] v.t = "arr" -> Len(v.a) > 0
      [] v.t = "obj" -> DOMAIN v.o # {}

\* dict.get(key, default)
Get(m, key, default) == IF key \in DOMAIN m.o THEN m.o[key] ELSE default

---------------------------------------------------------------------------
(* Tokens and the JSON parser *)

LBR == [k |-> "lbr"]
RBR == [k |-> "rbr"]
COMMA == [k |-> "comma"]
BAD == [k |-> "bad"]
Val(v) == [k |-> "val", v |-> v]

ParseFail == [ok |-> FALSE]

RECURSIVE ParseValue(_, _)
RECURSIVE ParseElems(_, _, _)

\* One JSON value starting at token i: [ok, v, i] with i the next token.
ParseValue(ts, i) ==
    IF i > Len(ts) THEN ParseFail
    ELSE IF ts[i].k = "val" THEN [ok |-> TRUE, v |-> ts[i].v, i |-> i + 1]
    ELSE IF ts[i].k = "lbr" THEN
        IF i + 1 <= Len(ts) /\ ts[i + 1].k = "rbr"
        THEN [ok |-> TRUE, v |-> Arr(<<>>), i |-> i + 2]
        ELSE ParseElems(ts, i + 1, <<>>)
    ELSE ParseFail

\* The elements of an array after its "[", up to and including its "]".
ParseElems(ts, i, acc) ==
    LET e == ParseValue(ts, i) IN
    IF ~e.ok THEN ParseFail
    ELSE IF e.i > Len(ts) THEN ParseFail
    ELSE IF ts[e.i].k = "comma" THEN ParseElems(ts, e.i + 1, Append(acc, e.v))
    ELSE IF ts[e.i].k = "rbr"
        THEN [ok |-> TRUE, v |-> Arr(Append(acc, e.v)), i |-> e.i + 1]
    ELSE ParseFail

\* json.loads of a token sequence: one value and nothing after it, or
\* JSONDecodeError (ok = FALSE).
JsonLoads(ts) ==
    LET r == ParseValue(ts, 1) IN
    IF r.ok /\ r.i = Len(ts) + 1 THEN [ok |-> TRUE, v |-> r.v] ELSE ParseFail

RECURSIVE Concat(_)
Concat(ls) == IF ls = <<>> THEN <<>> ELSE Head(ls) \o Concat(Tail(ls))

\* json.load(file): the whole file is one document, line breaks are blanks.
JsonLoad(lines) == JsonLoads(Concat(lines))

---------------------------------------------------------------------------
(* The input files *)

ObjA1 == Obj([author |-> Str("A"), sentiment |-> Num(1), message |-> Str("hi")])
ObjA2 == Obj([author |-> Str("A"), sentiment |-> Num(2)])
ObjBadSent == Obj([author |-> Str("B"), sentiment |-> Str("x")])

\* The lines the producer writes: one JSON object each.
ObjectLines == {<<Val(ObjA1)>>, <<Val(ObjA2)>>, <<Val(EmptyObj)>>}

\* The lines a file is made of: an object, `[`, `]`, `[]`, an array of two
\* elements on one line, and the empty line.
LineKinds ==
    ObjectLines \cup
    { <<Val(ObjBadSent)>>,
      <<LBR>>, <<RBR>>, <<LBR, RBR>>,
      <<LBR, Val(EmptyObj), COMMA, Val(ObjA1), RBR>>,
      <<LBR, Val(ObjA1), COMMA, Val(Num(5)), RBR>>,
      <<>> }

RECURSIVE SeqsUpTo(_, _)
SeqsUpTo(S, n) ==
    IF n = 0 THEN {<<>>}
    ELSE LET shorter == SeqsUpTo(S, n - 1) IN
         shorter \cup {Append(s, x) : s \in shorter, x \in S}

FileOf(lines) == [st |-> "ok", lines |-> lines]
Missing == [st |-> "missing", lines |-> <<>>]
Denied == [st |-> "denied", lines |-> <<>>]

Files == {Missing, Denied} \cup {FileOf(ls) : ls \in SeqsUpTo(LineKinds, MaxLines)}

---------------------------------------------------------------------------
(* read_message *)

NoExc == "none"

\* open(DATA_FILE, "r"): the exception it raises, if any.
OpenExc(f) ==
    CASE f.st = "missing" -> "FileNotFoundError"
      [] f.st = "denied" -> "PermissionError"
      [] OTHER -> NoExc

\* read_message() returning the first element of a list instead of the last.
read_message_FirstElement(f) ==
    IF OpenExc(f) = "FileNotFoundError"
    THEN [raised |-> NoExc, ret |-> Null, logged |-> TRUE]
    ELSE IF OpenExc(f) # NoExc
    THEN [raised |-> OpenExc(f), ret |-> Null, logged |-> FALSE]
    ELSE LET data == JsonLoad(f.lines) IN
         IF ~data.ok THEN [raised |-> NoExc, ret |-> Null, logged |-> TRUE]
         ELSE IF data.v.t = "obj"
             THEN [raised |-> NoExc, ret |-> data.v, logged |-> FALSE]
         ELSE IF data.v.t = "arr" /\ Len(data.v.a) > 0
             THEN [raised |-> NoExc, ret |-> data.v.a[1], logged |-> FALSE]
         ELSE [raised |-> NoExc, ret |-> Null, logged |-> FALSE]

\* read_message(): [raised, ret, logged].  raised is the exception that
\* leaves the function; ret is the value returned (Null is Python's None).
read_message(f) ==
    IF OpenExc(f) = "FileNotFoundError"
    THEN [raised |-> NoExc, ret |-> Null, logged |-> TRUE]
    ELSE IF OpenExc(f) # NoExc
    THEN [raised |-> OpenExc(f), ret |-> Null, logged |-> FALSE]
    ELSE LET data == JsonLoad(f.lines) IN
         IF ~data.ok THEN [raised |-> NoExc, ret |-> Null, logged |-> TRUE]
         ELSE IF data.v.t = "obj"
             THEN [raised |-> NoExc, ret |-> data.v, logged |-> FALSE]
         ELSE IF data.v.t = "arr" /\ Len(data.v.a) > 0
             THEN [raised |-> NoExc, ret |-> data.v.a[Len(data.v.a)], logged |-> FALSE]
         ELSE [raised |-> NoExc, ret |-> Null, logged |-> FALSE]

\* call: the operation, its argument, the exception that left it, the value it
\* returned, whether it ran to its end without an exception raised or caught,
\* whether it called logger.error, and the number of rows in the store when it
\* was called.
NoCall ==
    [op |-> "none", arg |-> Null, raised |-> NoExc, ret |-> Null, ok |-> TRUE,
     logged |-> FALSE, before |-> 0]

EmptyDb == [exists |-> FALSE, rows |-> <<>>, seq |-> 0]

EmptyDict == [a \in {} |-> 0]

NoViz ==
    [on |-> FALSE, read |-> <<>>, message_count |-> EmptyDict,
     average_sentiment |-> EmptyDict, refreshes |-> 0, err |-> NoExc]

ReaderInit ==
    /\ file \in Files
    /\ db = EmptyDb
    /\ pc = "api"
    /\ call = NoCall
    /\ message = Null
    /\ viz = NoViz
    /\ log = {}

CallReadMessage ==
    /\ pc = "api"
    /\ LET r == read_message(file) IN
       /\ call' = [op |-> "read_message", arg |-> Null, raised |-> r.raised,
                   ret |-> r.ret, ok |-> r.raised = NoExc /\ ~r.logged,
                   logged |-> r.logged,
                   before |-> Len(db.rows)]
    /\ UNCHANGED <<file, db, pc, message, viz, log>>

ReaderNext == CallReadMessage

ReaderSpec == ReaderInit /\ [][ReaderNext]_vars

---------------------------------------------------------------------------
(* The store: SQLite's column affinities and AUTOINCREMENT *)

Digits == <<"0", "1", "2", "3", "4", "5", "6", "7", "8", "9">>

\* The decimal text of a natural number.
RECURSIVE ToText(_)
ToText(n) == IF n < 10 THEN Digits[n + 1] ELSE ToText(n \div 10) \o Digits[(n % 10) + 1]

NumericRange == 0 .. 50
LooksNumeric(s) == \E n \in NumericRange : ToText(n) = s
NumberOf(s) == CHOOSE n \in NumericRange : ToText(n) = s

\* A value bound to a column declared TEXT: a number is stored as its text.
TextAffinity(v) == IF v.t = "num" THEN Str(ToText(v.n)) ELSE v

\* A value bound to a column declared REAL: a text that reads as a number is
\* stored as that number.
RealAffinity(v) ==
    IF v.t = "str" /\ LooksNumeric(v.s) THEN Num(NumberOf(v.s)) ELSE v

\* The types the sqlite3 module binds to a "?" parameter.
Bindable(v) == v.t \in {"null", "num", "str"}

\* I/O outcomes of a store operation, chosen by the environment.
StoreIO == {"ok", "fail_connect", "fail_midway"}

\* init_db() without its DROP TABLE: the table is created only if missing.
init_db_KeepRows(d, io) ==
    IF io = "ok"
    THEN [db |-> [exists |-> TRUE, rows |-> d.rows, seq |-> d.seq],
          raised |-> NoExc, logged |-> FALSE]
    ELSE [db |-> d, raised |-> NoExc, logged |-> TRUE]

\* init_db(db_path): [db, raised, logged]
init_db(d, io) ==
    CASE io = "ok" ->
            [db |-> [exists |-> TRUE, rows |-> <<>>, seq |-> 0],
             raised |-> NoExc, logged |-> FALSE]
      [] io = "fail_connect" ->
            [db |-> d, raised |-> NoExc, logged |-> TRUE]
      [] io = "fail_midway" ->
            \* DROP TABLE ran (DDL is not held in a transaction), CREATE failed
            [db |-> [exists |-> FALSE, rows |-> <<>>, seq |-> 0],
             raised |-> NoExc, logged |-> TRUE]

---------------------------------------------------------------------------
(* process_message *)

Now == "2025-01-29 14:35:20"

DefaultSentiment == Num(0)
DefaultCategory == Str("other")
DefaultAuthor_Anonymous == Str("Anonymous")
DefaultAuthor == Str("Unknown")
DefaultKeyword == Null
DefaultText == Str("")

\* len(text): [ok, n]; ok = FALSE is the TypeError of a value without len().
PyLen(v) ==
    CASE v.t = "str" -> [ok |-> TRUE, n |-> Len(v.s)]
      [] v.t = "arr" -> [ok |-> TRUE, n |-> Len(v.a)]
      [] v.t = "obj" -> [ok |-> TRUE, n |-> Cardinality(DOMAIN v.o)]
      [] OTHER -> [ok |-> FALSE, n |-> 0]

\* message_length taken from the message when it carries one.
MessageLength_FromInput(m, text) ==
    IF "message_length" \in DOMAIN m.o /\ m.o["message_length"].t = "num"
    THEN [ok |-> TRUE, n |-> m.o["message_length"].n]
    ELSE PyLen(text)

\* message_length = len(text)
MessageLength(m, text) == PyLen(text)

\* The row written with an explicit id instead of the AUTOINCREMENT one.
InsertedRow_FixedId(d, text, author, timestamp, category, sentiment, keyword, length) ==
    [id |-> 1,
     message |-> TextAffinity(text),
     author |-> TextAffinity(author),
     timestamp |-> TextAffinity(timestamp),
     category |-> TextAffinity(category),
     sentiment |-> RealAffinity(sentiment),
     keyword_mentioned |-> TextAffinity(keyword),
     message_length |-> length]

\* The row INSERT writes: the bound values under the columns' affinities, and
\* the next AUTOINCREMENT id.
InsertedRow(d, text, author, timestamp, category, sentiment, keyword, length) ==
    [id |-> d.seq + 1,
     message |-> TextAffinity(text),
     author |-> TextAffinity(author),
     timestamp |-> TextAffinity(timestamp),
     category |-> TextAffinity(category),
     sentiment |-> RealAffinity(sentiment),
     keyword_mentioned |-> TextAffinity(keyword),
     message_length |-> length]

\* process_message(message): [db, raised, logged, inserted]
process_message(d, m, io) ==
    IF m.t # "obj"
    THEN [db |-> d, raised |-> "AttributeError", logged |-> FALSE, inserted |-> FALSE]
    ELSE
    LET sentiment == Get(m, "sentiment", DefaultSentiment)
        category == Get(m, "category", DefaultCategory)
        timestamp == Get(m, "timestamp", Str(Now))
        author == Get(m, "author", DefaultAuthor)
        text == Get(m, "message", DefaultText)
        keyword == Get(m, "keyword_mentioned", DefaultKeyword)
        length == MessageLength(m, text)
        params == {text, author, timestamp, category, sentiment, keyword}
    IN
    IF ~length.ok
    THEN [db |-> d, raised |-> "TypeError", logged |-> FALSE, inserted |-> FALSE]
    ELSE IF io # "ok" \/ ~d.exists \/ \E p \in params : ~Bindable(p)
    THEN [db |-> d, raised |-> NoExc, logged |-> TRUE, inserted |-> FALSE]
    ELSE LET row == InsertedRow(d, text, author, timestamp, category, sentiment,
                                keyword, length.n) IN
         [db |-> [exists |-> TRUE, rows |-> Append(d.rows, row), seq |-> row.id],
          raised |-> NoExc, logged |-> FALSE, inserted |-> TRUE]

---------------------------------------------------------------------------
(* The store's operations called in any order *)

Typical ==
    [sentiment |-> Num(2), category |-> Str("humor"), author |-> Str("Bob"),
     keyword_mentioned |-> Str("meme"), message |-> Str("hi")]

DefaultedFields == {"sentiment", "category", "author", "keyword_mentioned"}

\* A message with text "hi" and any subset of the defaulted fields.
PresenceMessages ==
    {Obj([k \in S \cup {"message"} |-> Typical[k]]) : S \in SUBSET DefaultedFields}

OddMessages ==
    { EmptyObj,
      Obj([message |-> Str("")]),
      Obj([message |-> Str("hello"), message_length |-> Num(42)]),
      Obj([message_length |-> Num(42)]),
      Obj([message |-> Arr(<<Str("a"), Str("b")>>)]),
      Obj([message |-> Num(5)]),
      Obj([message |-> Null]),
      Obj([message |-> Str("hi"), author |-> Num(5)]),
      Obj([message |-> Str("hi"), sentiment |-> Str("7")]),
      Obj([message |-> Str("hi"), sentiment |-> Null]),
      Obj([message |-> Str("hi"), author |-> Arr(<<>>)]),
      Num(5) }

Messages == PresenceMessages \cup OddMessages

\* The input file while the store is exercised: one record.
StoreFiles == {FileOf(<<<<Val(ObjA1)>>>>)}

StoreInit ==
    /\ file \in StoreFiles
    /\ db = EmptyDb
    /\ pc = "api"
    /\ call = NoCall
    /\ message = Null
    /\ viz = NoViz
    /\ log = {}

CallInitDb(io) ==
    /\ pc = "api"
    /\ LET r == init_db(db, io) IN
       /\ db' = r.db
       /\ call' = [op |-> "init_db", arg |-> Null, raised |-> r.raised, ret |-> Null,
                   ok |-> r.raised = NoExc /\ ~r.logged, logged |-> r.logged,
                   before |-> Len(db.rows)]
    /\ UNCHANGED <<file, pc, message, viz, log>>

CallProcessMessage(m, io) ==
    /\ pc = "api"
    /\ Len(db.rows) < MaxRows
    /\ LET r == process_message(db, m, io) IN
       /\ db' = r.db
       /\ call' = [op |-> "process_message", arg |-> m, raised |-> r.raised,
                   ret |-> Null, ok |-> r.inserted, logged |-> r.logged,
                   before |-> Len(db.rows)]
    /\ UNCHANGED <<file, pc, message, viz, log>>

StoreNext ==
    \/ CallReadMessage
    \/ \E io \in StoreIO : CallInitDb(io)
    \/ \E m \in Messages, io \in {"ok", "fail_connect"} : CallProcessMessage(m, io)

StoreSpec == StoreInit /\ [][StoreNext]_vars

---------------------------------------------------------------------------
(* update_visualization *)

AuthorOf(msg) == Get(msg, "author", Str("Unknown"))
SentimentOf(msg) == Get(msg, "sentiment", Num(0))

\* A value that can be a dict key.
Hashable(v) == v.t \notin {"arr", "obj"}

\* The file parsed as one JSON document, an array giving its elements.
ParseLines_WholeDocument(lines) ==
    LET doc == JsonLoad(lines) IN
    IF ~doc.ok THEN [ok |-> FALSE, data |-> <<>>]
    ELSE IF doc.v.t = "arr" THEN [ok |-> TRUE, data |-> doc.v.a]
    ELSE [ok |-> TRUE, data |-> <<doc.v>>]

\* data = [json.loads(line) for line in file]: [ok, data]
RECURSIVE ParseLines(_)
ParseLines(lines) ==
    IF lines = <<>> THEN [ok |-> TRUE, data |-> <<>>]
    ELSE LET first == JsonLoads(Head(lines))
             rest == ParseLines(Tail(lines)) IN
         IF first.ok /\ rest.ok
         THEN [ok |-> TRUE, data |-> <<first.v>> \o rest.data]
         ELSE [ok |-> FALSE, data |-> <<>>]

\* message_count kept from one iteration to the next (a module-level dict).
FreshCounts_Kept(prev) == prev

\* message_count = defaultdict(int) at the top of each iteration; prev is the
\* dict of the iteration before.
FreshCounts(prev) == EmptyDict

\* sentiments = defaultdict(list) at the top of each iteration.
FreshSentiments(prev) == EmptyDict

\* defaultdict: d[key] with the default made on first use.
Lookup(d, key, default) == IF key \in DOMAIN d THEN d[key] ELSE default
Store(d, key, v) == [a \in DOMAIN d \cup {key} |-> IF a = key THEN v ELSE d[a]]

\* for msg in data: ... from element i on: [raised, message_count, sentiments]
RECURSIVE Tally(_, _, _, _)
Tally(data, i, mc, st) ==
    IF i > Len(data) THEN [raised |-> NoExc, message_count |-> mc, sentiments |-> st]
    ELSE IF data[i].t # "obj"
        THEN [raised |-> "AttributeError", message_count |-> mc, sentiments |-> st]
    ELSE LET author == AuthorOf(data[i]) IN
         IF ~Hashable(author)
         THEN [raised |-> "TypeError", message_count |-> mc, sentiments |-> st]
         ELSE Tally(data, i + 1,
                    Store(mc, author, Lookup(mc, author, 0) + 1),
                    Store(st, author,
                          Append(Lookup(st, author, <<>>), SentimentOf(data[i]))))

\* sum(list): [ok, n]; adding a value that is no number is a TypeError.
RECURSIVE PySum(_, _)
PySum(xs, acc) ==
    IF xs = <<>> THEN [ok |-> TRUE, n |-> acc]
    ELSE IF Head(xs).t # "num" THEN [ok |-> FALSE, n |-> 0]
    ELSE PySum(Tail(xs), acc + Head(xs).n)

RECURSIVE Gcd(_, _)
Gcd(a, b) == IF b = 0 THEN a ELSE Gcd(b, a % b)

\* a / b for naturals, b > 0, as the fraction in lowest terms.
Divide(a, b) == LET g == Gcd(a, b) IN [num |-> a \div g, den |-> b \div g]

\* The mean of one author: sum(sentiments[author]) / count
AuthorMean(sentimentList, count) == Divide(PySum(sentimentList, 0).n, count)

\* A loop that runs once.
WhileCondition_Once == FALSE

\* `while True:` at the top of the refresh loop.
WhileCondition == TRUE

\* One iteration of the loop on file f, after the iteration that left v:
\* [raised, read, message_count, average_sentiment]; with raised = NoExc the
\* chart of average_sentiment has been drawn.
Refresh(f, v, gui) ==
    LET failed(e) == [raised |-> e, read |-> v.read, message_count |-> v.message_count,
                      average_sentiment |-> v.average_sentiment]
    IN
    IF OpenExc(f) # NoExc THEN failed(OpenExc(f))
    ELSE LET parsed == ParseLines(f.lines) IN
    IF ~parsed.ok THEN failed("JSONDecodeError")
    ELSE LET t == Tally(parsed.data, 1, FreshCounts(v.message_count),
                        FreshSentiments(v.message_count)) IN
    IF t.raised # NoExc THEN failed(t.raised)
    ELSE IF \E a \in DOMAIN t.message_count : ~PySum(t.sentiments[a], 0).ok
        THEN failed("TypeError")
    ELSE IF gui # "ok" THEN failed("GuiError")
    ELSE [raised |-> NoExc, read |-> f.lines, message_count |-> t.message_count,
          average_sentiment |->
              [a \in DOMAIN t.message_count |->
                  AuthorMean(t.sentiments[a], t.message_count[a])]]

---------------------------------------------------------------------------
(* The entry point, with the producer writing the file meanwhile *)

\* A row left in the store by an earlier run of the script.
OldRow ==
    InsertedRow(EmptyDb, Str("hi"), Str("A"), Str(Now), DefaultCategory, Num(1),
                DefaultKeyword, 2)

InitialStores == {EmptyDb, [exists |-> TRUE, rows |-> <<OldRow>>, seq |-> 1]}

Init ==
    /\ file \in Files
    /\ db \in InitialStores
    /\ pc = "init_db"
    /\ call = NoCall
    /\ message = Null
    /\ viz = NoViz
    /\ log = {}

\* init_db(DB_PATH)
MainInitDb(io) ==
    /\ pc = "init_db"
    /\ LET r == init_db(db, io) IN
       /\ db' = r.db
       /\ call' = [op |-> "init_db", arg |-> Null, raised |-> r.raised, ret |-> Null,
                   ok |-> r.raised = NoExc /\ ~r.logged, logged |-> r.logged,
                   before |-> Len(db.rows)]
       /\ log' = IF r.logged THEN log \cup {"init_db"} ELSE log
    /\ pc' = "read_message"
    /\ UNCHANGED <<file, message, viz>>

\* message = read_message()
MainReadMessage ==
    /\ pc = "read_message"
    /\ LET r == read_message(file) IN
       /\ call' = [op |-> "read_message", arg |-> Null, raised |-> r.raised,
                   ret |-> r.ret, ok |-> r.raised = NoExc /\ ~r.logged,
                   logged |-> r.logged, before |-> Len(db.rows)]
       /\ log' = IF r.logged THEN log \cup {"read_message"} ELSE log
       /\ message' = IF r.raised = NoExc THEN r.ret ELSE message
       /\ pc' = IF r.raised = NoExc THEN "if_message" ELSE "crashed"
    /\ UNCHANGED <<file, db, viz>>

\* if message: process_message(message)
MainProcessMessage(io) ==
    /\ pc = "if_message"
    /\ Truthy(message)
    /\ LET r == process_message(db, message, io) IN
       /\ db' = r.db
       /\ call' = [op |-> "process_message", arg |-> message, raised |-> r.raised,
                   ret |-> Null, ok |-> r.inserted, logged |-> r.logged,
                   before |-> Len(db.rows)]
       /\ log' = IF r.logged THEN log \cup {"process_message"} ELSE log
       /\ pc' = IF r.raised = NoExc THEN "update_visualization" ELSE "crashed"
    /\ UNCHANGED <<file, message, viz>>

\* else: logger.error("No message found to process.")
MainNoMessage ==
    /\ pc = "if_message"
    /\ ~Truthy(message)
    /\ log' = log \cup {"no_message"}
    /\ pc' = "update_visualization"
    /\ UNCHANGED <<file, db, call, message, viz>>

\* update_visualization(DATA_FILE) up to the loop: plt.ion(), plt.subplots()
VizStart(gui) ==
    /\ pc = "update_visualization"
    /\ IF gui = "ok"
       THEN /\ viz' = [viz EXCEPT !.on = TRUE]
            /\ pc' = "refresh"
            /\ log' = log
       ELSE /\ viz' = [viz EXCEPT !.on = TRUE, !.err = "GuiError"]
            /\ pc' = "done"
            /\ log' = log \cup {"update_visualization"}
    /\ UNCHANGED <<file, db, call, message>>

\* One iteration of the loop; an exception ends update_visualization.
VizRefresh(gui) ==
    /\ pc = "refresh"
    /\ LET r == Refresh(file, viz, gui) IN
       IF r.raised = NoExc
       THEN /\ viz' = [viz EXCEPT !.read = r.read,
                                  !.message_count = r.message_count,
                                  !.average_sentiment = r.average_sentiment,
                                  !.refreshes = IF @ < MaxRefresh THEN @ + 1 ELSE @]
            /\ pc' = IF WhileCondition THEN "refresh" ELSE "done"
            /\ log' = log
       ELSE /\ viz' = [viz EXCEPT !.err = r.raised]
            /\ pc' = "done"
            /\ log' = log \cup {"update_visualization"}
    /\ UNCHANGED <<file, db, call, message>>

\* The producer appends one record to the file, creating it when missing.
Produce(line) ==
    /\ pc \notin {"done", "crashed"}
    /\ file.st # "denied"
    /\ Len(file.lines) < MaxLines
    /\ file' = FileOf(Append(file.lines, line))
    /\ UNCHANGED <<db, pc, call, message, viz, log>>

GuiOutcomes == {"ok", "fail"}

Next ==
    \/ \E io \in StoreIO : MainInitDb(io)
    \/ MainReadMessage
    \/ \E io \in {"ok", "fail_connect"} : MainProcessMessage(io)
    \/ MainNoMessage
    \/ \E gui \in GuiOutcomes : VizStart(gui)
    \/ \E gui \in GuiOutcomes : VizRefresh(gui)
    \/ \E line \in ObjectLines : Produce(line)

Spec == Init /\ [][Next]_vars

---------------------------------------------------------------------------
(* Claims about the store (StoreSpec) *)

LastRow == db.rows[Len(db.rows)]

Inserted == call.op = "process_message" /\ call.ok

DefaultOf(k) ==
    CASE k = "sentiment" -> Num(0)
      [] k = "category" -> Str("other")
      [] k = "author" -> Str("Unknown")
      [] k = "keyword_mentioned" -> Null

\* The value is null or of the type its column is declared with.
OfColumnType(k, v) ==
    \/ v.t = "null"
    \/ k = "sentiment" /\ v.t = "num"
    \/ k # "sentiment" /\ v.t = "str"

\* C2 as stated: the row process_message stores holds, for each of sentiment,
\* category, author and keyword_mentioned, the default when the message lacks
\* the field and the value given when the message has it.
C2_StoredAsGiven ==
    Inserted =>
        \A k \in DefaultedFields :
            LastRow[k] = IF k \in DOMAIN call.arg.o THEN call.arg.o[k] ELSE DefaultOf(k)

\* C2 amended: the row process_message stores holds the default (0, "other",
\* "Unknown", null) for each of the four fields the message lacks, and the
\* value given for each field present with null or with a value of its
\* column's type (a number for sentiment, a string for the other three).
C2_StoredDefaultsAndTypedValues ==
    Inserted =>
        \A k \in DefaultedFields :
            /\ k \notin DOMAIN call.arg.o => LastRow[k] = DefaultOf(k)
            /\ (k \in DOMAIN call.arg.o /\ OfColumnType(k, call.arg.o[k]))
                  => LastRow[k] = call.arg.o[k]

\* A row was stored from a message lacking some of the four fields and
\* holding others.
C2_Witness ==
    /\ Inserted
    /\ "author" \in DOMAIN call.arg.o
    /\ "category" \notin DOMAIN call.arg.o
    /\ "keyword_mentioned" \notin DOMAIN call.arg.o
    /\ LastRow.author = Str("Bob")
    /\ LastRow.category = Str("other")
    /\ LastRow.keyword_mentioned = Null

\* C3: every row of streamed_messages has message_length equal to the number
\* of characters of its message text.
C3_LengthIsCharCount ==
    \A i \in 1 .. Len(db.rows) :
        /\ db.rows[i].message.t = "str"
        /\ db.rows[i].message_length = Len(db.rows[i].message.s)

\* A row was stored from a message that carried a message_length other than
\* its text's length, and another from a message without a message field.
C3_Witness ==
    /\ Len(db.rows) = 2
    /\ Inserted
    /\ "message_length" \in DOMAIN call.arg.o
    /\ "message" \in DOMAIN call.arg.o
    /\ call.arg.o.message_length # Num(Len(call.arg.o.message.s))
    /\ db.rows[1].message = Str("")
    /\ db.rows[1].message_length = 0

C9_AppendOnly ==
    [][ \/ call'.op = "init_db"
        \/ /\ call'.op = "process_message"
           /\ call'.ok
           /\ db'.exists
           /\ Len(db'.rows) = Len(db.rows) + 1
           /\ SubSeq(db'.rows, 1, Len(db.rows)) = db.rows
           /\ \A i \in 1 .. Len(db.rows) :
                  db.rows[i].id < db'.rows[Len(db'.rows)].id
        \/ /\ ~(call'.op = "process_message" /\ call'.ok)
           /\ db'.rows = db.rows
           /\ db'.exists = db.exists
      ]_vars

\* A row was appended to a table that held a row, and read_message has then
\* run on the table of two rows.
C9_Witness ==
    /\ Len(db.rows) = 2
    /\ db.rows[1].id < db.rows[2].id
    /\ call.op = "read_message"
    /\ call.before = 2

---------------------------------------------------------------------------
(* Claims about read_message (ReaderSpec) *)

\* C1: read_message returns the object when the file parses to one object,
\* the last element when it parses to a non-empty array, and None when the
\* file is missing, unparsable or an empty array.
C1_ReaderResult ==
    call.op = "read_message" =>
        LET doc == JsonLoad(file.lines) IN
        /\ (file.st = "ok" /\ doc.ok /\ doc.v.t = "obj")
              => (call.raised = NoExc /\ call.ret = doc.v)
        /\ (file.st = "ok" /\ doc.ok /\ doc.v.t = "arr" /\ Len(doc.v.a) > 0)
              => (call.raised = NoExc /\ call.ret = doc.v.a[Len(doc.v.a)])
        /\ (\/ file.st = "missing"
            \/ file.st = "ok" /\ ~doc.ok
            \/ file.st = "ok" /\ doc.ok /\ doc.v.t = "arr" /\ Len(doc.v.a) = 0)
              => (call.raised = NoExc /\ call.ret = Null)

\* read_message has returned the last of the two different elements of an
\* array.
C1_Witness ==
    /\ call.op = "read_message"
    /\ file.st = "ok"
    /\ JsonLoad(file.lines).ok
    /\ JsonLoad(file.lines).v.t = "arr"
    /\ Len(JsonLoad(file.lines).v.a) = 2
    /\ call.ret = JsonLoad(file.lines).v.a[2]
    /\ call.ret # JsonLoad(file.lines).v.a[1]

---------------------------------------------------------------------------
(* Claims about the entry point and the refresh loop (Spec) *)

\* C5 as stated: whenever read_message returned a JSON object, process_message
\* has been called by the time update_visualization is started.
C5_InsertWheneverObject ==
    (pc \in {"update_visualization", "refresh", "done"} /\ message.t = "obj")
        => call.op = "process_message"

\* C7 as stated: no operation lets an exception out, and the entry point
\* always gets to the visualization step.
C7_NothingPropagates == call.raised = NoExc /\ pc # "crashed"

\* The records of the lines read by the last completed refresh.
RecordsRead == [i \in 1 .. Len(viz.read) |-> JsonLoads(viz.read[i]).v]

RecordsOf(a) == {i \in 1 .. Len(viz.read) : AuthorOf(RecordsRead[i]) = a}

RECURSIVE SentimentTotal(_)
SentimentTotal(S) ==
    IF S = {} THEN 0
    ELSE LET i == CHOOSE j \in S : TRUE IN
         SentimentOf(RecordsRead[i]).n + SentimentTotal(S \ {i})

RECURSIVE CountTotal(_)
CountTotal(S) ==
    IF S = {} THEN 0
    ELSE LET a == CHOOSE b \in S : TRUE IN
         viz.message_count[a] + CountTotal(S \ {a})

\* C6: after each refresh, for the records of the file as read in it, the
\* count of an author is the number of its records (a record without author
\* under "Unknown"), its mean is the sum of its sentiments (0 when missing)
\* over that count, and the counts add up to the number of records.
C6_AggregatesOfThisRefresh ==
    viz.refreshes > 0 =>
        LET authors == {AuthorOf(RecordsRead[i]) : i \in 1 .. Len(viz.read)} IN
        /\ DOMAIN viz.message_count = authors
        /\ DOMAIN viz.average_sentiment = authors
        /\ \A a \in authors :
              /\ viz.message_count[a] = Cardinality(RecordsOf(a))
              /\ viz.average_sentiment[a].den > 0
              /\ viz.average_sentiment[a].num * Cardinality(RecordsOf(a))
                    = SentimentTotal(RecordsOf(a)) * viz.average_sentiment[a].den
        /\ CountTotal(authors) = Len(viz.read)

\* A second refresh has aggregated two records of author A (mean 3/2) and a
\* record without author.
C6_Witness ==
    /\ viz.refreshes = 2
    /\ Len(viz.read) = 3
    /\ Str("A") \in DOMAIN viz.message_count
    /\ viz.message_count[Str("A")] = 2
    /\ viz.average_sentiment[Str("A")] = [num |-> 3, den |-> 2]
    /\ Str("Unknown") \in DOMAIN viz.message_count
    /\ viz.message_count[Str("Unknown")] = 1
    /\ viz.average_sentiment[Str("Unknown")] = [num |-> 0, den |-> 1]

\* C8: a refresh that raises nothing is followed by the loop again; the loop
\* is left only by an exception, which is logged and ends
\* update_visualization normally; after that there is no refresh.
C8_LoopEndsOnlyByException ==
    /\ [][(pc = "refresh" /\ viz' # viz /\ viz'.err = NoExc) => pc' = "refresh"]_vars
    /\ [][(pc = "refresh" /\ pc' # "refresh")
            => (/\ pc' = "done"
                /\ viz'.err # NoExc
                /\ "update_visualization" \in log')]_vars
    /\ [][pc = "done" => (pc' = "done" /\ viz' = viz)]_vars

\* The loop has ended by an exception after a completed refresh.
C8_Witness ==
    /\ pc = "done"
    /\ viz.refreshes >= 1
    /\ viz.err # NoExc
    /\ "update_visualization" \in log

IsArrayFile(f) ==
    /\ f.st = "ok"
    /\ JsonLoad(f.lines).ok
    /\ JsonLoad(f.lines).v.t = "arr"

\* C10: when the file is a JSON array at the first refresh, that refresh
\* raises while parsing or aggregating and update_visualization ends with a
\* logged error and no chart drawn; a refresh completes only on a file whose
\* every line is by itself a JSON object.
C10_ArrayFileStopsVisualization ==
    /\ [][(pc = "refresh" /\ viz.refreshes = 0 /\ IsArrayFile(file) /\ viz' # viz)
            => (/\ pc' = "done"
                /\ viz'.err \in {"JSONDecodeError", "AttributeError"}
                /\ viz'.refreshes = 0
                /\ "update_visualization" \in log')]_vars
    /\ [][viz'.refreshes > 0 =>
            \A i \in 1 .. Len(viz'.read) :
                /\ JsonLoads(viz'.read[i]).ok
                /\ JsonLoads(viz'.read[i]).v.t = "obj"]_vars

\* read_message took the last element of a one-line array, the message was
\* inserted, and the first refresh raised on that file.
C10_Witness ==
    /\ pc = "done"
    /\ IsArrayFile(file)
    /\ call.op = "process_message"
    /\ call.ok
    /\ call.arg = JsonLoad(file.lines).v.a[Len(JsonLoad(file.lines).v.a)]
    /\ viz.refreshes = 0
    /\ viz.err = "AttributeError"

=============================================================================
